---- MODULE Spec2Model ----
(***************************************************************************)
(* Model of the calcolatori-bench dashboard scripts: the three index page  *)
(* scripts (site/app.js 1-47 and the two variants of unnamed/part_000) and  *)
(* the detail page script (site/app.js 49-228).                            *)
(*                                                                         *)
(* Text is a sequence of one-character strings, so that the escapers are   *)
(* computed character by character.  A JavaScript value is a record with a *)
(* tag t; markup written to the DOM is a sequence of fragment records, and *)
(* every place where a name or an evidence text is interpolated into       *)
(* markup is kept as a "site": the raw value and the text that was emitted.*)
(***************************************************************************)
EXTENDS Integers, Sequences, FiniteSets, TLC

VARIABLES
    page,       \* which script runs: "app_index", "v1_index", "v2_index", "detail"
    query,      \* the value of the model query parameter (detail page)
    pc,         \* position of the load handler
    response,   \* the response the fetch resolved with (or NoResponse)
    data,       \* the value res.json() resolved with (or Undefined)
    dom,        \* the DOM regions the scripts write
    location,   \* window.location: "here" or "index.html"
    fetches,    \* number of fetch() calls issued
    ran,        \* the render functions called so far, in call order
    uncaught,   \* TRUE iff an exception escaped the load handler
    arg,        \* argument of a directly applied function
    out,        \* its result
    clicks      \* number of clicks so far on each collapsible header

vars == <<page, query, pc, response, data, dom, location, fetches, ran, uncaught, arg, out, clicks>>

-----------------------------------------------------------------------------
(* Bounds *)

MaxModels == 2      \* longest models array
MaxExams == 2       \* longest exams array
MaxSeconds == 7325  \* largest duration_seconds
MaxLines == 2       \* longest array of lines in expected / output
MaxHours == 3       \* largest hour count looked for when decomposing a duration
MaxClicks == 3      \* most header clicks in one page view

-----------------------------------------------------------------------------
(* JavaScript values *)

Undefined == [t |-> "undefined"]
Null == [t |-> "null"]
Str(s) == [t |-> "str", v |-> s]
Num(n) == [t |-> "num", v |-> n]
Bool(b) == [t |-> "bool", v |-> b]
Arr(a) == [t |-> "arr", v |-> a]
Obj(f) == [t |-> "obj", v |-> f]

\* ToBoolean, as used by !x and if (x)
Truthy(x) ==
    CASE x.t = "undefined" -> FALSE
      [] x.t = "null" -> FALSE
      [] x.t = "str" -> x.v # <<>>
      [] x.t = "num" -> x.v # 0
      [] x.t = "bool" -> x.v
      [] OTHER -> TRUE

Nullish(x) == x.t \in {"undefined", "null"}

\* o[k] on an object: undefined for a missing key
Get(o, k) == IF k \in DOMAIN o.v THEN o.v[k] ELSE Undefined

RECURSIVE Flatten(_)
Flatten(ss) == IF ss = <<>> THEN <<>> ELSE Head(ss) \o Flatten(Tail(ss))

Map(f(_), s) == [i \in 1..Len(s) |-> f(s[i])]

-----------------------------------------------------------------------------
(* Escapers *)

\* serialisation of one character of a text node by innerHTML
escChar(c) ==
    CASE c = "&" -> <<"&", "a", "m", "p", ";">>
      [] c = "<" -> <<"&", "l", "t", ";">>
      [] c = ">" -> <<"&", "g", "t", ";">>
      [] OTHER -> <<c>>

\* esc / escapeHtml: d.textContent = s; return d.innerHTML
esc(s) == Flatten(Map(escChar, s))

\* encodeURIComponent on one character: unreserved characters stay
uriChar(c) ==
    CASE c = "&" -> <<"%", "2", "6">>
      [] c = "<" -> <<"%", "3", "C">>
      [] c = ">" -> <<"%", "3", "E">>
      [] c = "\"" -> <<"%", "2", "2">>
      [] c = "\n" -> <<"%", "0", "A">>
      [] OTHER -> <<c>>

encodeURIComponent(s) == Flatten(Map(uriChar, s))

\* an interpolation site: the raw value and the text emitted into the markup
EscSite(v) == [raw |-> v, html |-> esc(v)]
UriSite(v) == [raw |-> v, html |-> encodeURIComponent(v)]

-----------------------------------------------------------------------------
(* Duration formatter *)

Span(display) == "<span class=\"exam-duration\">" \o display \o "</span>"

renderDurationOffByOne(seconds) ==
    IF Nullish(seconds) THEN ""
    ELSE IF seconds.v <= 60 THEN Span(ToString(seconds.v) \o "s")
    ELSE IF seconds.v <= 3600
        THEN Span(ToString(seconds.v \div 60) \o "m " \o ToString(seconds.v % 60) \o "s")
    ELSE Span(ToString(seconds.v \div 3600) \o "h "
              \o ToString((seconds.v % 3600) \div 60) \o "m")

renderDuration(seconds) ==
    IF Nullish(seconds) THEN ""
    ELSE IF seconds.v < 60 THEN Span(ToString(seconds.v) \o "s")
    ELSE IF seconds.v < 3600
        THEN Span(ToString(seconds.v \div 60) \o "m " \o ToString(seconds.v % 60) \o "s")
    ELSE Span(ToString(seconds.v \div 3600) \o "h "
              \o ToString((seconds.v % 3600) \div 60) \o "m")

-----------------------------------------------------------------------------
(* The DOM before any script has written to it *)

Unwritten == [written |-> FALSE, rows |-> <<>>]
Written(rows) == [written |-> TRUE, rows |-> rows]

\* no header has been clicked
NoClicks == [h \in {} |-> 0]

NoResponse == [ok |-> FALSE, body |-> "none", json |-> Undefined]

EmptyDom ==
    [leaderboardBody |-> Unwritten, resultsHead |-> Unwritten, resultsBody |-> Unwritten,
     totalModels |-> Unwritten, totalExams |-> Unwritten, lastUpdated |-> Unwritten,
     title |-> Unwritten, modelName |-> Unwritten, modelStats |-> Unwritten,
     examsContainer |-> Unwritten]

Idle ==
    /\ page = "none" /\ query = Undefined /\ response = NoResponse /\ data = Undefined
    /\ dom = EmptyDom /\ location = "here" /\ fetches = 0 /\ ran = <<>>
    /\ uncaught = FALSE /\ clicks = NoClicks

-----------------------------------------------------------------------------
(* The result set: the parsed leaderboard_data.json *)

NameA == <<"a">>
NameB == <<"<", "'">>
ModelNames == {NameA, NameB}
\* a name that no result set lists
NameGhost == <<"g">>
ExamE == <<"e">>
ExamF == <<"&", "f">>
ExamNames == {ExamE, ExamF}

SeqsUpTo(S, n) == UNION {[1..k -> S] : k \in 0..n}

ResultSet(models, exams, stats, results, detailed, totals, generated) ==
    [t |-> "obj", models |-> models, exams |-> exams, model_stats |-> stats,
     exam_results |-> results, detailed_results |-> detailed,
     total_models |-> totals, total_exams |-> totals, generated_at |-> generated]

\* x?.length is truthy
HasLength(x) == x.t = "arr" /\ Len(x.v) > 0

Stats50 == [passed |-> 1, total |-> 2, percentage |-> 50]
Stats100 == [passed |-> 2, total |-> 2, percentage |-> 100]
StatsValues == {Stats50, Stats100}

\* objects with keys among K and values in V
Objects(K, V) == {Obj(f) : f \in UNION {[D -> V] : D \in SUBSET K}}

ModelLists == {Undefined} \cup {Arr(m) : m \in SeqsUpTo(ModelNames, MaxModels)}
ExamLists == {Undefined} \cup {Arr(e) : e \in SeqsUpTo(ExamNames, MaxExams)}

\* a PassFlag: {passed: true}, {passed: false}, or an object without a boolean passed
PassFlags == {Obj([passed |-> Bool(TRUE)]), Obj([passed |-> Bool(FALSE)]),
              Obj([passed |-> Undefined])}

ExamResultsObjects == Objects(ExamNames, Objects(ModelNames, PassFlags))

AllStats == Obj([m \in ModelNames |-> IF m = NameA THEN Stats50 ELSE Stats100])
SomeResults == Obj([e \in {ExamE} |-> Obj([m \in {NameA} |-> Obj([passed |-> Bool(TRUE)])])])
Generated == Str(<<"2", "0", "2", "5">>)

\* result sets that vary the matrix inputs
MatrixSets ==
    {ResultSet(m, e, AllStats, r, Undefined, Num(2), Generated) :
        m \in ModelLists, e \in ExamLists, r \in {Undefined} \cup ExamResultsObjects}

\* result sets that vary the leaderboard and summary inputs
StatsSets ==
    {ResultSet(m, e, s, r, Undefined, n, g) :
        m \in ModelLists, e \in {Undefined, Arr(<<ExamE>>)},
        s \in {Undefined} \cup Objects(ModelNames, StatsValues),
        r \in {Undefined, SomeResults}, n \in {Undefined, Num(2)},
        g \in {Undefined, Generated}}

IndexSets == {Null} \cup MatrixSets \cup StatsSets

\* what a non-success response carries when its body is JSON: an error object,
\* or a complete result set
ErrorObject == ResultSet(Undefined, Undefined, Undefined, Undefined, Undefined, Undefined, Undefined)
FullSet == ResultSet(Arr(<<NameA, NameB>>), Arr(<<ExamE>>), AllStats, SomeResults, Undefined, Num(2), Generated)
ErrorBodies == {ErrorObject, FullSet}

-----------------------------------------------------------------------------
(* Render state: the DOM, the renderers called, and whether one threw *)

St(d, r) == [dom |-> d, ran |-> r, threw |-> FALSE, loc |-> "here"]
Call(st, name) == [st EXCEPT !.ran = Append(@, name)]
Throw(st) == [st EXCEPT !.threw = TRUE]

FallbackRow(text) == [kind |-> "fallback", text |-> text, sites |-> <<>>]

\* index of the first model without stats, 0 if none
FirstMissing(models, stats) ==
    IF \E i \in 1..Len(models) : Get(stats, models[i]) = Undefined
    THEN CHOOSE i \in 1..Len(models) :
            /\ Get(stats, models[i]) = Undefined
            /\ \A j \in 1..(i - 1) : Get(stats, models[j]) # Undefined
    ELSE 0

LeaderRow(i, model, s, sites) ==
    [kind |-> "model", rank |-> i, name |-> esc(model), passed |-> s.passed,
     total |-> s.total, width |-> s.percentage, sites |-> sites]

\* the name is interpolated once, escaped; site/app.js also puts it in the row's
\* onclick attribute through encodeURIComponent
NameSites(p, model) ==
    IF p = "app_index" THEN <<UriSite(model), EscSite(model)>> ELSE <<EscSite(model)>>

LeaderRowsRankFromZero(models, stats, n, p) ==
    [i \in 1..n |-> LeaderRow(i - 1, models[i], Get(stats, models[i]), NameSites(p, models[i]))]

\* rows for models[1..n]; i is 1-based here, so the source's i + 1 is i
LeaderRows(models, stats, n, p) ==
    [i \in 1..n |-> LeaderRow(i, models[i], Get(stats, models[i]), NameSites(p, models[i]))]

\* site/app.js renderLeaderboard: rows link to the detail page
renderLeaderboardApp(st0, d) ==
    LET st == Call(st0, "renderLeaderboard") IN
    IF Nullish(d) THEN Throw(st)
    ELSE IF ~HasLength(d.models)
        THEN [st EXCEPT !.dom.leaderboardBody = Written(<<FallbackRow("No results yet")>>)]
    ELSE IF Nullish(d.model_stats) \/ FirstMissing(d.models.v, d.model_stats) # 0
        THEN Throw(st)
    ELSE [st EXCEPT !.dom.leaderboardBody =
            Written(LeaderRows(d.models.v, d.model_stats, Len(d.models.v), "app_index"))]

\* part_000 variant 1 renderLeaderboard
renderLeaderboardV1(st0, d) ==
    LET st == Call(st0, "renderLeaderboard") IN
    IF Nullish(d) THEN Throw(st)
    ELSE IF ~HasLength(d.models)
        THEN [st EXCEPT !.dom.leaderboardBody = Written(<<FallbackRow("No results yet")>>)]
    ELSE IF Nullish(d.model_stats) \/ FirstMissing(d.models.v, d.model_stats) # 0
        THEN Throw(st)
    ELSE [st EXCEPT !.dom.leaderboardBody =
            Written(LeaderRows(d.models.v, d.model_stats, Len(d.models.v), "v1_index"))]

\* part_000 variant 2 renderLeaderboard: the body is cleared, then rows are appended
\* one by one, so the rows before a throwing one stay
renderLeaderboardV2(st0, d) ==
    LET st == Call(st0, "renderLeaderboard") IN
    IF Nullish(d) THEN Throw(st)
    ELSE IF ~HasLength(d.models)
        THEN [st EXCEPT !.dom.leaderboardBody =
                Written(<<FallbackRow("No results available yet")>>)]
    ELSE IF Nullish(d.model_stats)
        THEN Throw([st EXCEPT !.dom.leaderboardBody = Written(<<>>)])
    ELSE LET k == FirstMissing(d.models.v, d.model_stats) IN
         IF k # 0
         THEN Throw([st EXCEPT !.dom.leaderboardBody =
                        Written(LeaderRows(d.models.v, d.model_stats, k - 1, "v2_index"))])
         ELSE [st EXCEPT !.dom.leaderboardBody =
                  Written(LeaderRows(d.models.v, d.model_stats, Len(d.models.v), "v2_index"))]

\* x || 0
OrZero(x) == IF Truthy(x) THEN x ELSE Num(0)

\* renderStats (the same in the three index scripts)
renderStats(st0, d) ==
    LET st == Call(st0, "renderStats") IN
    IF Nullish(d) THEN Throw(st)
    ELSE LET counted == [st EXCEPT !.dom.totalModels = Written(<<OrZero(d.total_models)>>),
                                   !.dom.totalExams = Written(<<OrZero(d.total_exams)>>)] IN
         IF Truthy(d.generated_at)
         THEN [counted EXCEPT !.dom.lastUpdated =
                  Written(<<[kind |-> "date", of |-> d.generated_at.v]>>)]
         ELSE counted

-----------------------------------------------------------------------------
(* Matrix renderers *)

\* data.exam_results[exam]?.[model]
Lookup(results, exam, model) ==
    LET byModel == Get(results, exam) IN
    IF Nullish(byModel) THEN Undefined ELSE Get(byModel, model)

\* r?.passed
PassedOf(r) == IF Nullish(r) THEN Undefined ELSE Get(r, "passed")

\* the three-way test on r?.passed === true / === false
Marker(r) ==
    IF PassedOf(r) = Bool(TRUE) THEN "pass"
    ELSE IF PassedOf(r) = Bool(FALSE) THEN "fail"
    ELSE "na"

Cells(d, model) == [j \in 1..Len(d.exams.v) |-> Marker(Lookup(d.exam_results, d.exams.v[j], model))]

PassCount(cells) == Cardinality({j \in 1..Len(cells) : cells[j] = "pass"})

HeaderRow(exams) == [kind |-> "header", cols |-> Map(esc, exams), sites |-> Map(EscSite, exams)]

GridRowCountsAttempted(d, model) ==
    LET cells == Cells(d, model) IN
    [kind |-> "grid", name |-> esc(model), cells |-> cells, passed |-> PassCount(cells),
     total |-> Cardinality({j \in 1..Len(cells) : cells[j] # "na"}),
     sites |-> <<EscSite(model)>>]

\* one body row: name, one marker per exam, "{passed}/{number of exams}"
GridRow(d, model) ==
    LET cells == Cells(d, model) IN
    [kind |-> "grid", name |-> esc(model), cells |-> cells, passed |-> PassCount(cells),
     total |-> Len(d.exams.v), sites |-> <<EscSite(model)>>]

GridRows(d) == [i \in 1..Len(d.models.v) |-> GridRow(d, d.models.v[i])]

InfoRow == [kind |-> "info", text |-> "No detailed results available", sites |-> <<>>]

\* part_000 variant 1 renderDetailed: returns at once on empty input; the head is
\* assigned before the body rows are computed
renderDetailed(st0, d) ==
    LET st == Call(st0, "renderDetailed") IN
    IF Nullish(d) THEN Throw(st)
    ELSE IF ~HasLength(d.models) \/ ~HasLength(d.exams) THEN st
    ELSE LET headed == [st EXCEPT !.dom.resultsHead = Written(<<HeaderRow(d.exams.v)>>)] IN
         IF Nullish(d.exam_results) THEN Throw(headed)
         ELSE [headed EXCEPT !.dom.resultsBody = Written(GridRows(d))]

\* part_000 variant 2 renderDetailedResults: head and body are cleared first; rows are
\* appended one by one, and the first cell of the first row throws without exam_results
renderDetailedResults(st0, d) ==
    LET st == Call(st0, "renderDetailedResults") IN
    IF Nullish(d) THEN Throw(st)
    ELSE LET cleared == [st EXCEPT !.dom.resultsHead = Written(<<>>),
                                   !.dom.resultsBody = Written(<<>>)] IN
         IF ~HasLength(d.models) \/ ~HasLength(d.exams)
         THEN [cleared EXCEPT !.dom.resultsBody = Written(<<InfoRow>>)]
         ELSE LET headed == [cleared EXCEPT !.dom.resultsHead = Written(<<HeaderRow(d.exams.v)>>)] IN
              IF Nullish(d.exam_results) THEN Throw(headed)
              ELSE [headed EXCEPT !.dom.resultsBody = Written(GridRows(d))]

-----------------------------------------------------------------------------
(* Load handlers of the index scripts *)

IndexPages == {"app_index", "v1_index", "v2_index"}

\* run R unless an earlier statement of the try block threw
Then(st, R(_, _), d) == IF st.threw THEN st ELSE R(st, d)

\* the statements after the awaits, inside try
IndexBody(p, st, d) ==
    CASE p = "app_index" -> Then(renderLeaderboardApp(st, d), renderStats, d)
      [] p = "v1_index" ->
            Then(Then(renderLeaderboardV1(st, d), renderDetailed, d), renderStats, d)
      [] p = "v2_index" ->
            Then(Then(renderStats(st, d), renderLeaderboardV2, d), renderDetailedResults, d)

IndexFallbackText(p) == IF p = "v2_index" THEN "No results available yet" ELSE "No results yet"

\* the catch block: the fallback row replaces the leaderboard body
IndexCatch(p, st) ==
    [Call(st, "catch") EXCEPT !.threw = FALSE,
               !.dom.leaderboardBody = Written(<<FallbackRow(IndexFallbackText(p))>>)]

\* only variant 2 tests response.ok
ChecksOk(p) == p = "v2_index"

-----------------------------------------------------------------------------
(* Evidence cards of the detail page *)

RECURSIVE Join(_, _)
\* lines.join(sep)
Join(lines, sep) ==
    IF lines = <<>> THEN <<>>
    ELSE IF Len(lines) = 1 THEN lines[1]
    ELSE lines[1] \o sep \o Join(Tail(lines), sep)

Section(title, kind, text) ==
    [title |-> title, kind |-> kind, collapsed |-> kind = "collapsible",
     icon |-> IF kind = "collapsible" THEN "+" ELSE "",
     content |-> esc(text), sites |-> <<EscSite(text)>>]

Placeholder(title) ==
    [title |-> title, kind |-> "placeholder", collapsed |-> FALSE, icon |-> "",
     content |-> <<>>, sites |-> <<>>]

\* renderOutputSection: nothing for a falsy value or an empty array
renderOutputSection(title, output) ==
    IF ~Truthy(output) \/ (output.t = "arr" /\ Len(output.v) = 0) THEN <<>>
    ELSE <<Section(title, "pre", IF output.t = "arr" THEN Join(output.v, <<"\n">>) ELSE output.v)>>

renderDiffSection(diff) ==
    IF ~Truthy(diff) THEN <<>> ELSE <<Section("Code Diff", "pre", diff.v)>>

renderBootOutput(bootOutput) ==
    IF ~Truthy(bootOutput) THEN <<>> ELSE <<Section("Boot Output", "collapsible", bootOutput.v)>>

renderAgentOutputOmits(agentOutput) ==
    IF ~Truthy(agentOutput) THEN <<>>
    ELSE <<Section("Agent Output", "collapsible", agentOutput.v)>>

renderAgentOutput(agentOutput) ==
    IF ~Truthy(agentOutput) THEN <<Placeholder("Agent Output")>>
    ELSE <<Section("Agent Output", "collapsible", agentOutput.v)>>

\* the exam-details block of a card
Sections(result) ==
    renderOutputSection("Expected Output", result.expected)
    \o renderOutputSection("Actual Output", result.output)
    \o renderDiffSection(result.diff)
    \o renderBootOutput(result.boot_output)
    \o renderAgentOutput(result.agent_output)

NoResultCard(exam) ==
    [kind |-> "noresult", name |-> esc(exam), status |-> "No result", sites |-> <<EscSite(exam)>>]

\* one element of the data.exams.map(...) of renderExams
Card(exam, result) ==
    IF ~Truthy(result) THEN NoResultCard(exam)
    ELSE LET sections == Sections(result) IN
         [kind |-> "card", name |-> esc(exam),
          class |-> IF Truthy(result.passed) THEN "pass" ELSE "fail",
          status |-> IF Truthy(result.passed) THEN "PASSED" ELSE "FAILED",
          duration |-> renderDuration(result.duration_seconds),
          sections |-> sections,
          sites |-> <<EscSite(exam)>> \o Flatten([i \in 1..Len(sections) |-> sections[i].sites])]

ExamResult(passed, duration, expected, output, diff, boot, agent) ==
    [t |-> "obj", passed |-> passed, duration_seconds |-> duration, expected |-> expected,
     output |-> output, diff |-> diff, boot_output |-> boot, agent_output |-> agent]

-----------------------------------------------------------------------------
(* Detail page renderers and load handler *)

NoDataMessage == [kind |-> "nodata", text |-> "No exam results available", sites |-> <<>>]
ErrorMessage == [kind |-> "error", text |-> "Failed to load results", sites |-> <<>>]

\* renderHeader: title and name are set before model_stats is read
renderHeader(st0, modelName, d) ==
    LET st == Call(st0, "renderHeader")
        named == [st EXCEPT !.dom.title = Written(<<modelName>>),
                            !.dom.modelName = Written(<<modelName>>)] IN
    IF Nullish(d.model_stats) THEN Throw(named)
    ELSE LET stats == Get(d.model_stats, modelName) IN
         IF stats = Undefined THEN named
         ELSE [named EXCEPT !.dom.modelStats = Written(<<stats>>)]

\* data.detailed_results?.[modelName]
DetailedOf(d, modelName) ==
    IF Nullish(d.detailed_results) THEN Undefined ELSE Get(d.detailed_results, modelName)

ExamCards(detailed, exams) == [j \in 1..Len(exams) |-> Card(exams[j], Get(detailed, exams[j]))]

renderExamsCardsAlways(st0, modelName, d) ==
    LET st == Call(st0, "renderExams")
        detailed == DetailedOf(d, modelName) IN
    IF ~HasLength(d.exams)
    THEN [st EXCEPT !.dom.examsContainer = Written(<<NoDataMessage>>)]
    ELSE [st EXCEPT !.dom.examsContainer =
            Written(ExamCards(IF Truthy(detailed) THEN detailed ELSE Obj(<<>>), d.exams.v))]

\* renderExams: one message without an entry for the model or without exams,
\* otherwise one card per exam
renderExams(st0, modelName, d) ==
    LET st == Call(st0, "renderExams")
        detailed == DetailedOf(d, modelName) IN
    IF ~Truthy(detailed) \/ ~HasLength(d.exams)
    THEN [st EXCEPT !.dom.examsContainer = Written(<<NoDataMessage>>)]
    ELSE [st EXCEPT !.dom.examsContainer = Written(ExamCards(detailed, d.exams.v))]

\* data.models?.includes(modelName) is truthy
Includes(models, name) == models.t = "arr" /\ \E i \in 1..Len(models.v) : models.v[i] = name

DetailBodyRendersUnknown(st, modelName, d) ==
    IF Nullish(d) THEN Throw(st)
    ELSE LET headed == renderHeader(st, modelName, d) IN
         IF headed.threw THEN headed ELSE renderExams(headed, modelName, d)

\* the statements after the awaits, inside try
DetailBody(st, modelName, d) ==
    IF Nullish(d) THEN Throw(st)
    ELSE IF ~Includes(d.models, modelName) THEN [st EXCEPT !.loc = "index.html"]
    ELSE LET headed == renderHeader(st, modelName, d) IN
         IF headed.threw THEN headed ELSE renderExams(headed, modelName, d)

\* the catch block of the detail page
DetailCatch(st) ==
    [Call(st, "catch") EXCEPT !.threw = FALSE, !.dom.examsContainer = Written(<<ErrorMessage>>)]

-----------------------------------------------------------------------------
(* Inputs of the detail page *)

TextPlain == <<"o", "k">>
TextMarkup == <<"<", "b", ">">>
Lines == {<<>>, <<"<">>}

\* expected / output: absent, a string, or an array of lines
OutputValues ==
    {Undefined, Str(<<>>), Str(TextMarkup)} \cup {Arr(l) : l \in SeqsUpTo(Lines, MaxLines)}
\* diff, boot_output, agent_output: absent, empty or a text
TextValues == {Undefined, Str(<<>>), Str(TextMarkup)}
DurationValues == {Undefined, Num(0), Num(75)}

ExamResults ==
    {ExamResult(Bool(p), s, e, o, d, b, a) :
        p \in BOOLEAN, s \in DurationValues, e \in OutputValues, o \in OutputValues,
        d \in TextValues, b \in TextValues, a \in TextValues}

ResultFull ==
    ExamResult(Bool(TRUE), Num(75), Arr(<<TextPlain, TextMarkup>>), Str(TextPlain),
               Str(TextMarkup), Str(TextPlain), Str(TextMarkup))
ResultBare ==
    ExamResult(Bool(FALSE), Undefined, Undefined, Undefined, Undefined, Undefined, Undefined)
ResultEmpty ==
    ExamResult(Bool(FALSE), Num(0), Arr(<<>>), Str(<<>>), Str(<<>>), Str(<<>>), Str(<<>>))
SampleResults == {ResultFull, ResultBare, ResultEmpty}

\* detailed_results: missing, or with an entry for NameA only
DetailedObjects == {Undefined} \cup Objects({NameA}, Objects(ExamNames, SampleResults))

DetailSets ==
    {Null} \cup
    {ResultSet(m, e, s, Undefined, dr, Num(2), Generated) :
        m \in ModelLists, e \in ExamLists,
        s \in {Undefined, AllStats, Obj([n \in {NameB} |-> Stats100])},
        dr \in DetailedObjects}

\* params.get('model'): null when the parameter is absent
Queries == {Null, Str(<<>>), Str(NameA), Str(NameB), Str(NameGhost)}

-----------------------------------------------------------------------------
(* Page loads *)

Malformed(ok) == [ok |-> ok, body |-> "malformed", json |-> Undefined]
Json(ok, d) == [ok |-> ok, body |-> "json", json |-> d]

Responses(p) ==
    {Malformed(TRUE), Malformed(FALSE)}
    \cup {Json(TRUE, d) : d \in IF p = "detail" THEN DetailSets ELSE IndexSets}
    \cup {Json(FALSE, d) : d \in ErrorBodies}

Catch(p, st) == IF p = "detail" THEN DetailCatch(st) ELSE IndexCatch(p, st)

\* try { body } catch { ... } once the parsed data d is there
Handle(p, q, st, d) ==
    LET tried == IF p = "detail" THEN DetailBody(st, q.v, d) ELSE IndexBody(p, st, d) IN
    IF tried.threw THEN Catch(p, tried) ELSE tried

\* the handler returns, leaving st behind
Finish(st) ==
    /\ dom' = st.dom
    /\ ran' = st.ran
    /\ location' = st.loc
    /\ uncaught' = st.threw
    /\ pc' = "done"

\* DOMContentLoaded on an index page: the fetch is issued
DOMContentLoadedIndex ==
    /\ pc = "start"
    /\ page \in IndexPages
    /\ fetches' = fetches + 1
    /\ pc' = "awaitFetch"
    /\ UNCHANGED <<clicks, page, query, response, data, dom, location, ran, uncaught, arg, out>>

\* DOMContentLoaded on the detail page: redirect without a model, else fetch
DOMContentLoadedDetail ==
    /\ pc = "start"
    /\ page = "detail"
    /\ IF ~Truthy(query)
       THEN /\ location' = "index.html"
            /\ pc' = "done"
            /\ UNCHANGED fetches
       ELSE /\ fetches' = fetches + 1
            /\ pc' = "awaitFetch"
            /\ UNCHANGED location
    /\ UNCHANGED <<clicks, page, query, response, data, dom, ran, uncaught, arg, out>>

\* the fetch promise rejects (transport failure)
FetchReject ==
    /\ pc = "awaitFetch"
    /\ Finish(Catch(page, Throw(St(dom, ran))))
    /\ UNCHANGED <<clicks, page, query, response, data, fetches, arg, out>>

\* the fetch promise resolves with a response
FetchResolve ==
    /\ pc = "awaitFetch"
    /\ \E r \in Responses(page) :
        /\ response' = r
        /\ IF ChecksOk(page) /\ ~r.ok
           THEN Finish(Catch(page, Throw(St(dom, ran))))
           ELSE /\ pc' = "awaitJson"
                /\ UNCHANGED <<dom, ran, location, uncaught>>
    /\ UNCHANGED <<clicks, page, query, data, fetches, arg, out>>

\* res.json() rejects: the body is not JSON
JsonReject ==
    /\ pc = "awaitJson"
    /\ response.body = "malformed"
    /\ Finish(Catch(page, Throw(St(dom, ran))))
    /\ UNCHANGED <<clicks, page, query, response, data, fetches, arg, out>>

\* res.json() resolves: the rest of the handler runs to its end
JsonResolve ==
    /\ pc = "awaitJson"
    /\ response.body = "json"
    /\ data' = response.json
    /\ Finish(Handle(page, query, St(dom, ran), response.json))
    /\ UNCHANGED <<clicks, page, query, response, fetches, arg, out>>

Fresh ==
    /\ response = NoResponse /\ data = Undefined /\ dom = EmptyDom /\ location = "here"
    /\ fetches = 0 /\ ran = <<>> /\ uncaught = FALSE /\ pc = "start"
    /\ arg = Undefined /\ out = "" /\ clicks = NoClicks

InitIndex == page \in IndexPages /\ query = Null /\ Fresh

NextIndex == DOMContentLoadedIndex \/ FetchReject \/ FetchResolve \/ JsonReject \/ JsonResolve

\* a load of one of the three index scripts
SpecIndex == InitIndex /\ [][NextIndex]_vars

InitDetail == page = "detail" /\ query \in Queries /\ Fresh

NextDetail == DOMContentLoadedDetail \/ FetchReject \/ FetchResolve \/ JsonReject \/ JsonResolve

\* a load of the detail page
SpecDetail == InitDetail /\ [][NextDetail]_vars

-----------------------------------------------------------------------------
(* Specification of the leaderboard renderers applied to one result set *)

renderLeaderboard(p, st, d) ==
    CASE p = "app_index" -> renderLeaderboardApp(st, d)
      [] p = "v1_index" -> renderLeaderboardV1(st, d)
      [] p = "v2_index" -> renderLeaderboardV2(st, d)

InitLeaderboard ==
    /\ page \in IndexPages /\ query = Null /\ response = NoResponse /\ data = Undefined
    /\ dom = EmptyDom /\ location = "here" /\ fetches = 0 /\ ran = <<>> /\ uncaught = FALSE
    /\ pc = "start" /\ arg \in StatsSets /\ out = "" /\ clicks = NoClicks

CallRenderLeaderboard ==
    /\ pc = "start"
    /\ Finish(renderLeaderboard(page, St(dom, ran), arg))
    /\ UNCHANGED <<clicks, page, query, response, data, fetches, arg, out>>

NextLeaderboard == CallRenderLeaderboard

SpecLeaderboard == InitLeaderboard /\ [][NextLeaderboard]_vars

-----------------------------------------------------------------------------
(* Specification of one evidence card rendered from one exam result *)

InitCard == Idle /\ pc = "start" /\ arg \in ExamResults /\ out = ""

CallCard ==
    /\ pc = "start"
    /\ out' = Card(ExamF, arg)
    /\ pc' = "done"
    /\ UNCHANGED <<clicks, page, query, response, data, dom, location, fetches, ran, uncaught, arg>>

NextCard == CallCard

SpecCard == InitCard /\ [][NextCard]_vars

-----------------------------------------------------------------------------
(* Collapse controller: clicks on the headers of a rendered detail page *)

\* the headers that carry onclick="toggleCollapse(this)": <<card, section>>
Headers(rows) ==
    {h \in UNION {{<<k, i>> : i \in 1..Len(rows[k].sections)} :
                    k \in {c \in 1..Len(rows) : rows[c].kind = "card"}} :
        rows[h[1]].sections[h[2]].kind = "collapsible"}

toggleCollapseWholeCard(rows, k, i) ==
    LET secs == rows[k].sections IN
    [rows EXCEPT ![k].sections =
        [j \in 1..Len(secs) |->
            IF secs[j].kind = "collapsible"
            THEN [secs[j] EXCEPT !.collapsed = ~secs[j].collapsed,
                                 !.icon = IF secs[j].collapsed THEN "-" ELSE "+"]
            ELSE secs[j]]]

\* toggleCollapse(header) for the header of section i of card k: the header's next
\* sibling loses or gains the class collapsed, the header's own icon becomes the
\* minus sign or "+"
toggleCollapse(rows, k, i) ==
    [rows EXCEPT ![k].sections[i] =
        [@ EXCEPT !.collapsed = ~@, !.icon = IF rows[k].sections[i].collapsed THEN "-" ELSE "+"]]

CountIn(c, h) == IF h \in DOMAIN c THEN c[h] ELSE 0

RECURSIVE SumOver(_, _)
SumOver(c, S) ==
    IF S = {} THEN 0 ELSE LET h == CHOOSE x \in S : TRUE IN c[h] + SumOver(c, S \ {h})

\* result sets of a detail page for model a
CollapseSets ==
    {ResultSet(Arr(<<NameA>>), e, AllStats, Undefined, dr, Num(2), Generated) :
        e \in ExamLists, dr \in Objects({NameA}, Objects(ExamNames, SampleResults))}

InitCollapse ==
    /\ page = "detail" /\ query = Str(NameA) /\ response = NoResponse /\ data = Undefined
    /\ dom = EmptyDom /\ location = "here" /\ fetches = 0 /\ ran = <<>> /\ uncaught = FALSE
    /\ pc = "start" /\ arg \in CollapseSets /\ out = "" /\ clicks = NoClicks

\* renderExams(modelName, data) fills the exams container
CallRenderExams ==
    /\ pc = "start"
    /\ Finish(renderExams(St(dom, ran), query.v, arg))
    /\ UNCHANGED <<clicks, page, query, response, data, fetches, arg, out>>

\* the user clicks one collapsible header
ClickHeader ==
    /\ pc = "done"
    /\ SumOver(clicks, DOMAIN clicks) < MaxClicks
    /\ \E h \in Headers(dom.examsContainer.rows) :
        /\ dom' = [dom EXCEPT !.examsContainer.rows = toggleCollapse(@, h[1], h[2])]
        /\ clicks' = [x \in DOMAIN clicks \cup {h} |->
                        IF x = h THEN CountIn(clicks, h) + 1 ELSE clicks[x]]
    /\ UNCHANGED <<page, query, pc, response, data, location, fetches, ran, uncaught, arg, out>>

NextCollapse == CallRenderExams \/ ClickHeader

SpecCollapse == InitCollapse /\ [][NextCollapse]_vars

-----------------------------------------------------------------------------
(* Specification of the duration formatter applied to one input *)

DurationInputs == {Undefined, Null} \cup {Num(n) : n \in 0..MaxSeconds}

InitDuration ==
    /\ Idle
    /\ pc = "start"
    /\ arg \in DurationInputs
    /\ out = ""

CallRenderDuration ==
    /\ pc = "start"
    /\ out' = renderDuration(arg)
    /\ pc' = "done"
    /\ UNCHANGED <<clicks, page, query, response, data, dom, location, fetches, ran, uncaught, arg>>

NextDuration == CallRenderDuration

SpecDuration == InitDuration /\ [][NextDuration]_vars

\* C5: for every non-negative integer s the formatter gives "{s}s" below 60,
\* "{m}m {r}s" with s = 60m + r, 0 <= r < 60 below 3600, and "{h}h {m}m" with
\* s = 3600h + 60m + r, 0 <= m < 60, 0 <= r < 60 from 3600 on; the five boundary
\* values are exact; null / undefined give the empty string and 0 does not.
DurationFormatted ==
    pc = "done" =>
        /\ Nullish(arg) => out = ""
        /\ arg = Num(0) => out = "<span class=\"exam-duration\">0s</span>"
        /\ arg = Num(59) => out = "<span class=\"exam-duration\">59s</span>"
        /\ arg = Num(60) => out = "<span class=\"exam-duration\">1m 0s</span>"
        /\ arg = Num(3599) => out = "<span class=\"exam-duration\">59m 59s</span>"
        /\ arg = Num(3600) => out = "<span class=\"exam-duration\">1h 0m</span>"
        /\ arg.t = "num" =>
            \E h \in 0..MaxHours, m \in 0..59 :
              LET r == arg.v - 3600 * h - 60 * m IN
                /\ r \in 0..59
                /\ out # ""
                /\ out = Span(IF h > 0 THEN ToString(h) \o "h " \o ToString(m) \o "m"
                              ELSE IF m > 0 THEN ToString(m) \o "m " \o ToString(r) \o "s"
                              ELSE ToString(r) \o "s")

DurationFormattedWitness ==
    pc = "done" /\ arg = Num(3725) /\ out = "<span class=\"exam-duration\">1h 2m</span>"

-----------------------------------------------------------------------------
(* Properties of the index scripts *)

InRan(name) == \E k \in 1..Len(ran) : ran[k] = name

\* exam_results[e][m].passed is exactly the boolean b, read key by key
PassedExactly(d, e, m, b) ==
    /\ e \in DOMAIN d.exam_results.v
    /\ m \in DOMAIN d.exam_results.v[e].v
    /\ d.exam_results.v[e].v[m].v.passed = Bool(b)

\* a matrix renderer has run to its end on data with models, exams and exam_results
MatrixRendered ==
    /\ pc = "done"
    /\ InRan("renderDetailed") \/ InRan("renderDetailedResults")
    /\ data.t = "obj"
    /\ HasLength(data.models) /\ HasLength(data.exams)
    /\ data.exam_results.t = "obj"

\* C1: in the rendered matrix there is one row per model; the cell of (model, exam)
\* is a pass marker iff exam_results[exam][model].passed is exactly true, a fail
\* marker iff it is exactly false, a neutral marker otherwise; the last cell is P/N
\* with P the number of exactly-true pairs of the row and N the number of exams.
MatrixMarkers ==
    MatrixRendered =>
        LET rows == dom.resultsBody.rows
            models == data.models.v
            exams == data.exams.v IN
        /\ Len(rows) = Len(models)
        /\ \A i \in 1..Len(rows) :
            /\ rows[i].kind = "grid"
            /\ rows[i].name = esc(models[i])
            /\ Len(rows[i].cells) = Len(exams)
            /\ \A j \in 1..Len(exams) :
                /\ rows[i].cells[j] = "pass" <=> PassedExactly(data, exams[j], models[i], TRUE)
                /\ rows[i].cells[j] = "fail" <=> PassedExactly(data, exams[j], models[i], FALSE)
                /\ rows[i].cells[j] = "na" <=>
                        /\ ~PassedExactly(data, exams[j], models[i], TRUE)
                        /\ ~PassedExactly(data, exams[j], models[i], FALSE)
            /\ rows[i].passed =
                 Cardinality({j \in 1..Len(exams) : PassedExactly(data, exams[j], models[i], TRUE)})
            /\ rows[i].total = Len(exams)

\* models = [a, b], exams = [e], only a attempted and passed: "1/1" and "0/1"
MatrixMarkersWitness ==
    /\ MatrixRendered
    /\ page = "v1_index"
    /\ data.models.v = <<NameA, NameB>>
    /\ data.exams.v = <<ExamE>>
    /\ Len(dom.resultsBody.rows) = 2
    /\ dom.resultsBody.rows[1].cells = <<"pass">>
    /\ dom.resultsBody.rows[1].passed = 1
    /\ dom.resultsBody.rows[2].cells = <<"na">>
    /\ dom.resultsBody.rows[2].passed = 0
    /\ dom.resultsBody.rows[2].total = 1

\* some listed model has no entry in model_stats
StatsMissing(d) ==
    /\ d.t = "obj"
    /\ HasLength(d.models)
    /\ d.model_stats.t = "obj"
    /\ \E i \in 1..Len(d.models.v) : d.models.v[i] \notin DOMAIN d.model_stats.v

\* C2: after a successful load in which a listed model has no model_stats entry, no exception is raised by the
\* leaderboard renderer (the catch block does not run), every model that has stats
\* still has its row, and the matrix renderer and the summary stats still run.
MissingStatsTolerated ==
    (pc = "done" /\ page \in IndexPages /\ response.ok /\ StatsMissing(data)) =>
        /\ ~InRan("catch")
        /\ \A i \in 1..Len(data.models.v) :
              data.models.v[i] \in DOMAIN data.model_stats.v =>
                \E k \in 1..Len(dom.leaderboardBody.rows) :
                    /\ dom.leaderboardBody.rows[k].kind = "model"
                    /\ dom.leaderboardBody.rows[k].name = esc(data.models.v[i])
        /\ dom.totalModels.written
        /\ page = "v1_index" => InRan("renderDetailed")
        /\ page = "v2_index" => InRan("renderDetailedResults")

\* the load failed: the fetch rejected, the response is not a success, or the body
\* is not JSON
LoadFailed ==
    /\ pc = "done"
    /\ page \in IndexPages
    /\ response = NoResponse \/ ~response.ok \/ response.body = "malformed"

\* C7: after a failed load no exception has escaped the handler, the leaderboard
\* body is exactly the one fallback row, and no renderer has run.
LoadErrorFallback ==
    LoadFailed =>
        /\ ~uncaught
        /\ dom.leaderboardBody = Written(<<FallbackRow(IndexFallbackText(page))>>)
        /\ ran = <<"catch">>

\* C9: when a matrix renderer has run on data whose models or exams are empty or
\* missing, the matrix body is exactly one informational row and the head holds no
\* header row.
EmptyMatrixInfoRow ==
    (/\ pc = "done"
     /\ response.ok
     /\ InRan("renderDetailed") \/ InRan("renderDetailedResults")
     /\ data.t = "obj"
     /\ ~HasLength(data.models) \/ ~HasLength(data.exams)) =>
        /\ Len(dom.resultsBody.rows) = 1
        /\ dom.resultsBody.rows[1].kind = "info"
        /\ dom.resultsHead.rows = <<>>

\* every interpolation site of the fragments of a region
SitesOf(region) == Flatten([k \in 1..Len(region.rows) |-> region.rows[k].sites])

\* C10: at every site where a name or an evidence text is interpolated into markup,
\* the emitted text is the HTML-escaped value.
AllSitesEscaped ==
    (pc = "done" /\ response.ok) =>
    \A region \in {dom.leaderboardBody, dom.resultsHead, dom.resultsBody, dom.examsContainer} :
        \A k \in 1..Len(SitesOf(region)) : SitesOf(region)[k].html = esc(SitesOf(region)[k].raw)

-----------------------------------------------------------------------------
(* Properties of the leaderboard renderers *)

\* every listed model has stats
StatsPresent(d) ==
    /\ d.t = "obj"
    /\ HasLength(d.models)
    /\ d.model_stats.t = "obj"
    /\ \A i \in 1..Len(d.models.v) : d.models.v[i] \in DOMAIN d.model_stats.v

\* C6: with stats present for every model, the renderer emits one row per element of
\* models, in source order; the row at 1-based position i shows rank i (0-based
\* position + 1), whatever passed, total and percentage are.
RankIsPosition ==
    (pc = "done" /\ StatsPresent(arg)) =>
        /\ ~uncaught
        /\ Len(dom.leaderboardBody.rows) = Len(arg.models.v)
        /\ \A i \in 1..Len(arg.models.v) :
            LET row == dom.leaderboardBody.rows[i] IN
            /\ row.kind = "model"
            /\ row.name = esc(arg.models.v[i])
            /\ row.rank = i
            /\ row.passed = arg.model_stats.v[arg.models.v[i]].passed
            /\ row.total = arg.model_stats.v[arg.models.v[i]].total
            /\ row.width = arg.model_stats.v[arg.models.v[i]].percentage

\* the first model has the lower percentage and still has rank 1
RankIsPositionWitness ==
    /\ pc = "done"
    /\ StatsPresent(arg)
    /\ Len(arg.models.v) = 2
    /\ Len(dom.leaderboardBody.rows) = 2
    /\ dom.leaderboardBody.rows[1].rank = 1
    /\ dom.leaderboardBody.rows[1].width = 50
    /\ dom.leaderboardBody.rows[2].rank = 2
    /\ dom.leaderboardBody.rows[2].width = 100

-----------------------------------------------------------------------------
(* Properties of the detail page *)

\* the parameter names a model that is not in data.models: the loaded data does not
\* list it, or it is a name that no result set lists
UnknownModel ==
    /\ Truthy(query)
    /\ \/ data.t = "obj" /\ ~Includes(data.models, query.v)
       \/ query.v \notin ModelNames

\* C3 as stated: whenever the parameter is absent or empty, or names a model that is
\* not in data.models, the page ends redirected with no DOM region written, whatever
\* the outcome of the fetch, and without a parameter no fetch is issued.
RedirectWhateverTheFetch ==
    (pc = "done" /\ page = "detail" /\ (~Truthy(query) \/ UnknownModel)) =>
        /\ location = "index.html"
        /\ dom = EmptyDom
        /\ ~Truthy(query) => fetches = 0

\* C3, amended: without a parameter the page is redirected before any fetch and the
\* DOM is never written; with a parameter and parsed data that does not list the
\* model the page ends redirected with the DOM unwritten; with a parameter and no
\* usable data (fetch rejected, body not JSON, JSON null) the page is not redirected
\* and only the exams container is written, with the load error.
RedirectOnNavigationError ==
    /\ (page = "detail" /\ ~Truthy(query)) =>
        /\ dom = EmptyDom
        /\ fetches = 0
        /\ pc = "done" => location = "index.html"
    /\ (page = "detail" /\ pc = "done" /\ Truthy(query) /\ data.t = "obj"
            /\ ~Includes(data.models, query.v)) =>
        /\ location = "index.html"
        /\ dom = EmptyDom
    /\ (page = "detail" /\ pc = "done" /\ Truthy(query) /\ data.t # "obj") =>
        /\ location = "here"
        /\ dom = [EmptyDom EXCEPT !.examsContainer = Written(<<ErrorMessage>>)]

\* the parameter names <' and the loaded models are [a]: redirected after one fetch
RedirectOnNavigationErrorWitness ==
    /\ page = "detail"
    /\ pc = "done"
    /\ query = Str(NameB)
    /\ data.t = "obj"
    /\ data.models = Arr(<<NameA>>)
    /\ data.exams = Arr(<<ExamE>>)
    /\ fetches = 1
    /\ location = "index.html"
    /\ dom = EmptyDom

IsCard(f) == f.kind \in {"card", "noresult"}

\* detailed_results[m][e] exists, read key by key
HasEntry(d, m, e) ==
    /\ d.detailed_results.t = "obj"
    /\ m \in DOMAIN d.detailed_results.v
    /\ e \in DOMAIN d.detailed_results.v[m].v

\* renderExams has run for the selected model
ExamsRendered == pc = "done" /\ page = "detail" /\ InRan("renderExams") /\ data.t = "obj"

ExamsOf(d) == IF HasLength(d.exams) THEN d.exams.v ELSE <<>>

\* the cards are one per exam, in order, "No result" exactly for the missing entries
CardsFollowExams(cards, d, m) ==
    /\ Len(cards) = Len(ExamsOf(d))
    /\ \A j \in 1..Len(cards) :
        /\ cards[j].name = esc(ExamsOf(d)[j])
        /\ cards[j].kind = "noresult" <=> ~HasEntry(d, m, ExamsOf(d)[j])

\* C4 as stated: one card per exam in exams order, "No result" for an exam without
\* entry, also when detailed_results has no entry at all for the model.
CardPerExamAlways ==
    ExamsRendered =>
        CardsFollowExams(SelectSeq(dom.examsContainer.rows, IsCard), data, query.v)

\* C4, amended: when detailed_results has an entry for the model and exams is not
\* empty, the container is exactly one card per exam, in order, "No result" for the
\* exams without entry; when detailed_results has no entry for the model (or exams
\* is empty) the container is the single "No exam results available" message.
CardPerExam ==
    ExamsRendered =>
        IF HasLength(data.exams) /\ data.detailed_results.t = "obj"
           /\ query.v \in DOMAIN data.detailed_results.v
        THEN /\ \A k \in 1..Len(dom.examsContainer.rows) : IsCard(dom.examsContainer.rows[k])
             /\ CardsFollowExams(dom.examsContainer.rows, data, query.v)
        ELSE dom.examsContainer = Written(<<NoDataMessage>>)

\* exams [e, &f] with an entry for &f only: a "No result" card, then a full card
CardPerExamWitness ==
    /\ ExamsRendered
    /\ data.exams = Arr(<<ExamE, ExamF>>)
    /\ Len(dom.examsContainer.rows) = 2
    /\ dom.examsContainer.rows[1].kind = "noresult"
    /\ dom.examsContainer.rows[2].kind = "card"
    /\ dom.examsContainer.rows[2].name = <<"&", "a", "m", "p", ";", "f">>

-----------------------------------------------------------------------------
(* Properties of one evidence card *)

SectionOrder == <<"Expected Output", "Actual Output", "Code Diff", "Boot Output", "Agent Output">>
Position(title) == CHOOSE k \in 1..Len(SectionOrder) : SectionOrder[k] = title

HasSection(card, title) == \E i \in 1..Len(card.sections) : card.sections[i].title = title
KindOf(card, title) ==
    (CHOOSE sec \in {card.sections[i] : i \in 1..Len(card.sections)} : sec.title = title).kind

InOrder(card) ==
    \A i, j \in 1..Len(card.sections) :
        i < j => Position(card.sections[i].title) < Position(card.sections[j].title)

\* a string with characters or an array with elements
NonEmpty(x) == (x.t = "str" /\ x.v # <<>>) \/ (x.t = "arr" /\ x.v # <<>>)

\* C8 as stated: Agent Output always there, a placeholder when agent_output is absent
\* and collapsible otherwise; Boot Output omitted when absent; Expected and Actual
\* there iff non-empty; Code Diff there iff diff is present; fixed order.
SectionsByPresence ==
    pc = "done" =>
        /\ out.kind = "card"
        /\ HasSection(out, "Agent Output")
        /\ KindOf(out, "Agent Output") =
              IF Nullish(arg.agent_output) THEN "placeholder" ELSE "collapsible"
        /\ Nullish(arg.boot_output) => ~HasSection(out, "Boot Output")
        /\ HasSection(out, "Expected Output") <=> NonEmpty(arg.expected)
        /\ HasSection(out, "Actual Output") <=> NonEmpty(arg.output)
        /\ HasSection(out, "Code Diff") <=> ~Nullish(arg.diff)
        /\ InOrder(out)

\* C8, amended: Agent Output always there, a placeholder when agent_output is absent
\* or the empty string and a collapsed collapsible block otherwise; Boot Output
\* omitted when absent; Expected and Actual there iff non-empty; Code Diff there iff
\* diff is present and not the empty string; fixed order.
SectionsByTruthiness ==
    pc = "done" =>
        /\ out.kind = "card"
        /\ HasSection(out, "Agent Output")
        /\ KindOf(out, "Agent Output") =
              IF NonEmpty(arg.agent_output) THEN "collapsible" ELSE "placeholder"
        /\ \A i \in 1..Len(out.sections) :
              out.sections[i].collapsed <=> out.sections[i].kind = "collapsible"
        /\ Nullish(arg.boot_output) => ~HasSection(out, "Boot Output")
        /\ HasSection(out, "Expected Output") <=> NonEmpty(arg.expected)
        /\ HasSection(out, "Actual Output") <=> NonEmpty(arg.output)
        /\ HasSection(out, "Code Diff") <=> NonEmpty(arg.diff)
        /\ InOrder(out)

\* agent_output is the empty string and boot_output a text: a diff section, a
\* collapsed boot section and the agent placeholder
SectionsByTruthinessWitness ==
    /\ pc = "done"
    /\ arg.agent_output = Str(<<>>)
    /\ arg.expected = Undefined
    /\ arg.output = Arr(<<>>)
    /\ Len(out.sections) = 3
    /\ out.sections[1].title = "Code Diff"
    /\ out.sections[2].title = "Boot Output"
    /\ out.sections[2].collapsed
    /\ out.sections[3].title = "Agent Output"
    /\ out.sections[3].kind = "placeholder"

-----------------------------------------------------------------------------
(* Properties of the collapse controller *)

\* every section of every card: <<card, section>>
AllSections(rows) ==
    UNION {{<<k, i>> : i \in 1..Len(rows[k].sections)} :
              k \in {c \in 1..Len(rows) : rows[c].kind = "card"}}

SectionAt(rows, h) == rows[h[1]].sections[h[2]]

\* a collapsible section is expanded iff its own header has an odd click count, and
\* its icon says so; right after render every count is 0
ExpandedIffOddClicks ==
    pc = "done" =>
        \A h \in Headers(dom.examsContainer.rows) :
            LET sec == SectionAt(dom.examsContainer.rows, h) IN
            /\ ~sec.collapsed <=> CountIn(clicks, h) % 2 = 1
            /\ sec.icon = IF sec.collapsed THEN "+" ELSE "-"

\* a step leaves every section whose header was not clicked as it was
OtherSectionsKept ==
    pc = "done" =>
        /\ Len(dom'.examsContainer.rows) = Len(dom.examsContainer.rows)
        /\ \A h \in AllSections(dom.examsContainer.rows) :
              CountIn(clicks', h) = CountIn(clicks, h) =>
                SectionAt(dom'.examsContainer.rows, h) = SectionAt(dom.examsContainer.rows, h)

\* C11: every collapsible section is collapsed right after render; after any clicks a
\* section is expanded iff its own header was clicked an odd number of times; a click
\* on one header leaves the state and icon of every other section unchanged.
CollapseIndependent == []ExpandedIffOddClicks /\ [][OtherSectionsKept]_vars

\* in one card, one header clicked once (expanded) and another clicked twice
\* (collapsed again)
CollapseIndependentWitness ==
    /\ pc = "done"
    /\ \E h, g \in Headers(dom.examsContainer.rows) :
        /\ h[1] = g[1] /\ h # g
        /\ CountIn(clicks, h) = 1
        /\ ~SectionAt(dom.examsContainer.rows, h).collapsed
        /\ SectionAt(dom.examsContainer.rows, h).icon = "-"
        /\ CountIn(clicks, g) = 2
        /\ SectionAt(dom.examsContainer.rows, g).collapsed
        /\ SectionAt(dom.examsContainer.rows, g).icon = "+"

-----------------------------------------------------------------------------
(* Properties of the page-load ordering *)

\* the region the handler's catch block writes its message to
CatchTarget == IF page = "detail" THEN "examsContainer" ELSE "leaderboardBody"

\* a render function has written a region that is still on the page
RenderTaken ==
    \E f \in DOMAIN dom : dom[f].written /\ (f # CatchTarget \/ ~InRan("catch"))

FallbackTaken == InRan("catch")

RedirectTaken == location # "here"

OneFetchNoRetry == fetches <= 1

\* the fetched object carries its two mappings, whatever keys they hold
MappingsPresent(d) == d.t = "obj" /\ d.model_stats.t = "obj" /\ d.exam_results.t = "obj"

NothingBeforeSettle ==
    pc \in {"start", "awaitFetch"} => (dom = EmptyDom /\ ran = <<>> /\ location = "here")

\* C12: a page load issues at most one fetch and never retries; nothing is rendered
\* and no fallback is written before the fetch has settled; once it has settled,
\* exactly one of render, fallback message and redirect is taken.
OneOutcomePerLoad ==
    /\ OneFetchNoRetry
    /\ NothingBeforeSettle
    /\ (pc = "done" /\ fetches = 1 /\ response.ok /\ response.body = "json"
            /\ MappingsPresent(data)) =>
          /\ RenderTaken \/ FallbackTaken \/ RedirectTaken
          /\ ~(RenderTaken /\ FallbackTaken)
          /\ ~(RenderTaken /\ RedirectTaken)
          /\ ~(FallbackTaken /\ RedirectTaken)

-----------------------------------------------------------------------------
(* Properties of the rendered leaderboard during the rest of the load *)

\* renderLeaderboard returned normally on a non-empty model list: the handler went
\* on to its next renderer, so the leaderboard body held one row per model
LeaderboardPopulated ==
    /\ page \in IndexPages /\ response.ok /\ response.body = "json"
    /\ StatsPresent(data) /\ Len(data.models.v) > 0
    /\ \E k \in 1..(Len(ran) - 1) :
          ran[k] = "renderLeaderboard" /\ ran[k + 1] # "catch"

\* C13: once the leaderboard body holds the model rows of successfully fetched and
\* parsed data it keeps them for the rest of the load; a later failure of the matrix
\* or of the summary stats does not replace them by the "no results" fallback row.
LeaderboardKept ==
    (pc = "done" /\ LeaderboardPopulated) =>
        /\ Len(dom.leaderboardBody.rows) = Len(data.models.v)
        /\ \A i \in 1..Len(data.models.v) :
              /\ dom.leaderboardBody.rows[i].kind = "model"
              /\ dom.leaderboardBody.rows[i].name = esc(data.models.v[i])

====
